---- MODULE Spec2Model ----
(***************************************************************************)
(* Model of the eugenbot message classification and extraction engine:     *)
(* AdvancedBotMonitor (advanced_monitor.py), DebugMonitor                  *)
(* (debug_monitor.py), BotMonitor (bot_monitor.py) and TelegramBotParser   *)
(* (telegram_bot_parser.py).                                               *)
(*                                                                         *)
(* Text is modelled as a sequence of atoms.  An atom is a maximal piece of *)
(* text that every regular expression of the program treats as a unit: a   *)
(* word, an address, a label such as "CA:", a URL part such as "gmgn.ai/", *)
(* a blank.  A regular expression is a sequence of pattern elements that   *)
(* is searched in the atom sequence the way re.search searches a string:   *)
(* leftmost match, greedy.  The lexical facts about an atom that a         *)
(* character class asks for (is it a word, which prefix of it is           *)
(* hexadecimal, is it a 32-44 character base58 token) are tables below.    *)
(***************************************************************************)
EXTENDS Integers, Sequences, FiniteSets, TLC

\* ------------------------------------------------------------------------
\* Bounds of the model
\* ------------------------------------------------------------------------
\* the longest message (in fragments) that the contract locators are applied to
MaxFrags == 3
\* the longest text (in fragments) after the ticker line of a message that
\* the ticker extractors are applied to
MaxBody == 2
\* the message ids of the deliveries are 1..MaxMsgId
MaxMsgId == 2
\* max_cache_size of AdvancedBotMonitor.__init__ (1000 in the source), scaled
\* down so that the cache fills and is cut within a few deliveries
max_cache_size == 2
\* the length of the text prefix that enters the fingerprint (100 characters
\* in the source), in atoms
PrefixLen == 12
\* config['settings']['max_errors']
max_errors == 2
\* deliveries stop being generated once this many messages were processed:
\* enough to fill the cache, cut it, and deliver again after the cut
MaxCount == max_cache_size + 2

\* ------------------------------------------------------------------------
\* Atoms: the addresses, chain names and words the messages are built from
\* ------------------------------------------------------------------------
\* hexadecimal (EVM) addresses, taken from the test messages of
\* telegram_bot_parser.py main()
HexDexe == "0xde4EE8057785A7e8e800Db58F9784845A5C2Cbd6"
HexFtt == "0x50d1c9771902476076ecfc8b2a83ad6b9355a4c9"
HexRice == "0xb5761f36FdFE2892f1b54Bc8EE8baBb2a1b698D3"
HexPair == "0x2afdf2cd0384a3b5d7836b70c8da5e73841ba826"
\* base58 (Solana) mints of 44 characters: one starting with a character
\* outside [a-fA-F0-9x], one starting with the two characters "7x" inside it
MintH == "HN7cABqLq46Es1jh92dQQisAq662SmxELLLsHHe4YWrH"
Mint7 == "7xKXtg2CW87d97TXJSDpbD5jBkheTqA83TZRuJosgAsU"

HexAddresses == {HexDexe, HexFtt, HexRice, HexPair}
MintAddresses == {MintH, Mint7}
Addresses == HexAddresses \cup MintAddresses

ChainWords == {"ethereum", "Ethereum", "eth", "arbitrum", "bsc", "BEP20", "bep20",
               "polygon", "base", "solana", "sol", "SOL", "avalanche", "avax",
               "arb", "tron"}
TickerWords == {"DEXE", "FTT", "RICE", "rice", "DOGE", "doge", "Doge", "SOL"}
DirectionWords == {"Long", "Short", "LONG", "SHORT"}
OtherWords == {"gm", "in", "on", "MEXC", "10"}

\* str.lower() on the atoms it is applied to
Lower(s) ==
    CASE s = "Ethereum" -> "ethereum"
      [] s = "BEP20" -> "bep20"
      [] s = "SOL" -> "sol"
      [] s = "#SOLANA" -> "#solana"
      [] s = "Contract:" -> "contract:"
      [] s = "CONTRACT:" -> "contract:"
      [] s = "Network:" -> "network:"
      [] s = "CA:" -> "ca:"
      [] s = "Chain:" -> "chain:"
      [] s = "DEXE" -> "dexe"
      [] s = "FTT" -> "ftt"
      [] s = "RICE" -> "rice"
      [] s = "DOGE" -> "doge"
      [] s = "Doge" -> "doge"
      [] OTHER -> s

\* str.upper() on the tickers
Upper(s) ==
    CASE s = "rice" -> "RICE"
      [] s = "doge" -> "DOGE"
      [] s = "Doge" -> "DOGE"
      [] s = "sol" -> "SOL"
      [] OTHER -> s

IsSpace(a) == a \in {" ", "\n"}

Words == ChainWords \cup TickerWords \cup DirectionWords \cup OtherWords \cup Addresses

\* \w+ matches the whole atom
IsWord(a) == a \in Words

\* the longest prefix of the atom that \w+ matches ("" when there is none)
WordPrefix(a) ==
    CASE IsWord(a) -> a
      [] a = "CA:" -> "CA"
      [] a = "Chain:" -> "Chain"
      [] a = "contract:" -> "contract"
      [] a = "Contract:" -> "Contract"
      [] a = "network:" -> "network"
      [] a = "https://" -> "https"
      [] a = "gmgn.ai/" -> "gmgn"
      [] a = "dexscreener.com/" -> "dexscreener"
      [] a = "8.17%" -> "8"
      [] a = "secs!" -> "secs"
      [] OTHER -> ""

\* the longest suffix of the atom that \w+ matches ("" when there is none)
WordSuffix(a) ==
    CASE IsWord(a) -> a
      [] a = "#SOLANA" -> "SOLANA"
      [] OTHER -> ""

\* the longest prefix of the atom that [a-fA-F0-9x]+ matches
HexPrefix(a) ==
    CASE a \in HexAddresses -> a
      [] a = Mint7 -> "7x"
      [] OTHER -> ""

\* the longest prefix of the atom that [1-9A-HJ-NP-Za-km-z]+ matches: an
\* address that starts with the digit 0 has none
B58Prefix(a) ==
    CASE a \in MintAddresses -> a
      [] OTHER -> ""

\* \b([1-9A-HJ-NP-Za-km-z]{32,44})\b matches the atom: atoms are delimited
\* by non-word characters, and a 0x address has no word boundary after its
\* leading 0
IsBase58Mint(a) == a \in MintAddresses

\* (#?SOLANA|\bsolana\b|\bSOL\b) with re.IGNORECASE matches inside the atom
IsSolanaMarker(a) == Lower(a) \in {"sol", "solana", "#solana"}

\* ------------------------------------------------------------------------
\* Messages: a sequence of fragments, rendered to atoms
\* ------------------------------------------------------------------------
Frag(t, c, a, g) == [t |-> t, c |-> c, a |-> a, g |-> g]

\* the text of one fragment
Render(f) ==
    CASE f.t = "word" -> <<f.c>>
      [] f.t = "mint" -> <<f.a>>
      [] f.t = "gmgn" -> <<"https://", "gmgn.ai/", f.c, "/token/", f.a>>
      [] f.t = "CA" -> <<"CA:", " ", f.a>>
      [] f.t = "Chain" -> <<"Chain:", " ", f.c>>
      [] f.t = "contract" -> <<f.c, " ", f.a>>
      [] f.t = "network" -> <<"network:", " ", f.c>>
      [] f.t = "dexs" -> <<"(", "https://", "dexscreener.com/", f.c, "/", f.a, ")">>
      [] f.t = "dexsbare" -> <<"https://", "dexscreener.com/", f.c, "/", f.a>>
      [] f.t = "mexcTracker" ->
            <<f.g[1], " ", "|", " ", "8.17%", " ", "|", " ", f.g[2]>>
      [] f.t = "kormushka_mexc" ->
            <<f.g[1], " ", "+3.61%", " ", "in", " ", "10", " ", "secs!">>
      [] f.t = "pumply_futures_dex" ->
            <<"<U+1F53B>", " ", f.g[1], " ", "$", f.g[2], " ", "+6.32%", " ",
              "on", " ", "MEXC">>
      [] f.t = "MexcDexSpreadTracker" ->
            <<f.g[1], " ", f.g[2], " ", "$", f.g[3]>>

\* the text of a message: its fragments, one per line
Flatten(msg) ==
    LET text[i \in 0..Len(msg)] ==
          IF i = 0 THEN <<>>
          ELSE (IF i = 1 THEN <<>> ELSE text[i - 1] \o <<"\n">>) \o Render(msg[i])
    IN text[Len(msg)]

\* ------------------------------------------------------------------------
\* Regular expressions over atoms
\* ------------------------------------------------------------------------
El(k, v, cap) == [k |-> k, v |-> v, cap |-> cap]
Lit(a) == El("lit", {a}, FALSE)       \* a literal
LitI(a) == El("liti", {a}, FALSE)     \* a literal under re.IGNORECASE
Alt(s) == El("lit", s, TRUE)          \* (A|B)
Ws == El("ws", {}, FALSE)             \* \s+
WsOpt == El("ws?", {}, FALSE)         \* \s*
WordG == El("word", {}, TRUE)         \* (\w+)
Pct == El("lit", {"8.17%"}, FALSE)    \* [\d.]+%
PlusPct == El("lit", {"+3.61%", "+6.32%"}, FALSE)   \* \+[\d.]+%
Digits == El("lit", {"10"}, FALSE)    \* \d+
HexG == El("hex", {}, TRUE)           \* ([a-fA-F0-9x]+)
HexOrB58G == El("hexb58", {}, TRUE)   \* ([a-fA-F0-9x]+|[1-9A-HJ-NP-Za-km-z]+)
NonSpaceG == El("nonspace", {}, TRUE) \* ([^\s\n]+)
NotParenG == El("notparen", {}, TRUE) \* ([^)]+)

NoMatch == [ok |-> FALSE, start |-> 0, i |-> 0, groups |-> <<>>]

\* the last index of the greedy run of atoms from i that are not in stop
RunEnd(atoms, i, stop) ==
    LET ends == {k \in i..Len(atoms) : atoms[k] \in stop} IN
    IF ends = {} THEN Len(atoms)
    ELSE (CHOOSE k \in ends : \A n \in ends : k <= n) - 1

\* the characters a negated class stops at
StopOf(e) == IF e.k = "nonspace" THEN {" ", "\n"} ELSE {")"}

\* the text that pattern element e captures from atom a (<<>>: no match)
Capture(e, a, isFirst, isLast) ==
    CASE e.k = "lit" -> IF a \in e.v THEN <<a>> ELSE <<>>
      [] e.k = "liti" -> IF Lower(a) \in e.v THEN <<a>> ELSE <<>>
      [] e.k = "ws" -> IF IsSpace(a) THEN <<a>> ELSE <<>>
      [] e.k = "word" ->
            LET w == IF isFirst THEN WordSuffix(a)
                     ELSE IF isLast THEN WordPrefix(a)
                     ELSE IF IsWord(a) THEN a ELSE ""
            IN IF w = "" THEN <<>> ELSE <<w>>
      [] e.k = "mint" -> IF IsBase58Mint(a) THEN <<a>> ELSE <<>>
      [] e.k = "hex" -> IF HexPrefix(a) = "" THEN <<>> ELSE <<HexPrefix(a)>>
      [] e.k = "hexb58" ->
            IF HexPrefix(a) # "" THEN <<HexPrefix(a)>>
            ELSE IF B58Prefix(a) # "" THEN <<B58Prefix(a)>>
            ELSE <<>>
      [] OTHER -> <<>>

\* the text that pattern element e takes at atom i (<<>>: no match): a
\* negated class takes the greedy run of atoms, any other element one atom
Taken(e, atoms, i, isFirst, isLast) ==
    IF e.k \in {"nonspace", "notparen"}
    THEN SubSeq(atoms, i, RunEnd(atoms, i, StopOf(e)))
    ELSE Capture(e, atoms[i], isFirst, isLast)

\* the match p extended by the text that element e took
Advance(e, p, text) ==
    IF text = <<>> THEN NoMatch
    ELSE [p EXCEPT !.i = @ + (IF e.k \in {"nonspace", "notparen"} THEN Len(text)
                              ELSE 1),
                   !.groups = IF e.cap THEN Append(@, text) ELSE @]

\* one pattern element e matched at the position p.i that the elements
\* before it have reached
MatchStep(e, atoms, p, isFirst, isLast) ==
    IF ~p.ok THEN p
    ELSE IF e.k = "ws?" THEN
        IF p.i <= Len(atoms) /\ IsSpace(atoms[p.i]) THEN [p EXCEPT !.i = @ + 1]
        ELSE p
    ELSE IF p.i > Len(atoms) THEN NoMatch
    ELSE Advance(e, p, Taken(e, atoms, p.i, isFirst, isLast))

\* re.match of pat at atom start: the elements in turn, each greedy
MatchAt(pat, atoms, start) ==
    LET m[j \in 0..Len(pat)] ==
          IF j = 0 THEN [ok |-> TRUE, start |-> start, i |-> start, groups |-> <<>>]
          ELSE MatchStep(pat[j], atoms, m[j - 1], j = 1, j = Len(pat))
    IN m[Len(pat)]

\* the leftmost of a set of matches
LeftMost(matches) ==
    IF matches = {} THEN NoMatch
    ELSE CHOOSE m \in matches : \A k \in matches : m.start <= k.start

\* re.match(pat, atoms): the match at the start of the text only
MatchStart(pat, atoms) ==
    LeftMost({m \in {MatchAt(pat, atoms, i) : i \in {k \in 1..Len(atoms) : k = 1}} :
                m.ok})

\* re.search(pat, atoms): the leftmost match
Search(pat, atoms) ==
    LeftMost({m \in {MatchAt(pat, atoms, i) : i \in 1..Len(atoms)} : m.ok})

\* match.group(n) of a one-atom capture
Group(m, n) == m.groups[n][1]

\* ------------------------------------------------------------------------
\* Contract information (the dex_info dictionaries)
\* ------------------------------------------------------------------------
\* Python's None where a dex_info dictionary is expected
NoneInfo == [type |-> "None", chain |-> "", contract |-> <<>>, url |-> <<>>]

\* f"https://gmgn.ai/{chain}/token/{contract}"
GmgnUrl(chain, contract) == <<"https://gmgn.ai/", chain, "/token/">> \o contract

\* f"https://dexscreener.com/{chain}/{contract}"
DexscreenerUrl(chain, contract) == <<"https://dexscreener.com/", chain, "/">> \o contract

DexInfo(type, chain, contract, url) ==
    [type |-> type, chain |-> chain, contract |-> contract, url |-> url]

\* the dictionary with the gmgn.ai URL of the chain and the contract
GmgnInfo(type, chain, contract) ==
    DexInfo(type, chain, contract, GmgnUrl(chain, contract))

\* a table of which one value is not mapped to itself
MappedChain_Unstable(c) ==
    CASE c = "ethereum" -> "eth"
      [] c = "arbitrum" -> "arb"
      [] c = "bsc" -> "bsc"
      [] c = "polygon" -> "polygon"
      [] c = "base" -> "base"
      [] c = "solana" -> "sol"
      [] c = "avalanche" -> "avax"
      [] c = "sol" -> "solana"
      [] c = "bep20" -> "bsc"
      [] OTHER -> c

\* chain_mapping.get(c, c) of AdvancedBotMonitor, c lower-case
MappedChain(c) ==
    CASE c = "ethereum" -> "eth"
      [] c = "arbitrum" -> "arb"
      [] c = "bsc" -> "bsc"
      [] c = "polygon" -> "polygon"
      [] c = "base" -> "base"
      [] c = "solana" -> "sol"
      [] c = "avalanche" -> "avax"
      [] c = "sol" -> "sol"
      [] c = "bep20" -> "bsc"
      [] OTHER -> c

\* chain_mapping.get(chain.lower(), chain.lower()) of AdvancedBotMonitor
chain_mapping(chain) == MappedChain(Lower(chain))

\* chain_mapping.get(c, c) of DebugMonitor, c lower-case
Debug_MappedChain(c) ==
    CASE c = "ethereum" -> "eth"
      [] c = "arbitrum" -> "arb"
      [] c = "bsc" -> "bsc"
      [] c = "polygon" -> "polygon"
      [] c = "base" -> "base"
      [] c = "solana" -> "sol"
      [] c = "avalanche" -> "avax"
      [] OTHER -> c

\* chain_mapping.get(chain.lower(), chain.lower()) of DebugMonitor
Debug_chain_mapping(chain) == Debug_MappedChain(Lower(chain))

\* ------------------------------------------------------------------------
\* AdvancedBotMonitor.extract_contract_info
\* ------------------------------------------------------------------------
\* r'gmgn\.ai/(\w+)/token/([a-fA-F0-9x]+|[1-9A-HJ-NP-Za-km-z]+)'
GmgnPattern == <<Lit("gmgn.ai/"), WordG, Lit("/token/"), HexOrB58G>>
\* r'CA:\s*([^\s\n]+)'
CaPattern == <<Lit("CA:"), WsOpt, NonSpaceG>>
\* r'Chain:\s*(\w+)'
ChainPattern == <<Lit("Chain:"), WsOpt, WordG>>
\* r'dexscreener\.com/(\w+)/'
DexChainPattern == <<Lit("dexscreener.com/"), WordG, Lit("/")>>
\* r'contract:\s*([^\s\n]+)' with re.IGNORECASE
ContractPattern == <<LitI("contract:"), WsOpt, NonSpaceG>>
\* r'network:\s*(\w+)' with re.IGNORECASE
NetworkPattern == <<LitI("network:"), WsOpt, WordG>>
\* r'dexscreener\.com/(\w+)/([^)]+)'
DexscreenerPattern == <<Lit("dexscreener.com/"), WordG, Lit("/"), NotParenG>>
\* r'\b([1-9A-HJ-NP-Za-km-z]{32,44})\b'
SolanaMintPattern == <<El("mint", {}, TRUE)>>

\* re.search(r'\b([1-9A-HJ-NP-Za-km-z]{32,44})\b', message)
SolanaMintSearch(atoms) == Search(SolanaMintPattern, atoms)

\* re.search(r'(#?SOLANA|\bsolana\b|\bSOL\b)', message, re.IGNORECASE)
SolanaMarkerSearch(atoms) == \E i \in 1..Len(atoms) : IsSolanaMarker(atoms[i])

\* the result of a pattern that captures chain and contract, both verbatim
LinkInfo(match, type) ==
    IF match.ok THEN GmgnInfo(type, Group(match, 1), match.groups[2])
    ELSE NoneInfo

\* the result of a pattern that captures the contract of a labelled field,
\* on the chain resolved and mapped for it
FieldInfo(match, gmgn_chain) ==
    IF match.ok THEN GmgnInfo("contract", gmgn_chain, match.groups[1])
    ELSE NoneInfo

\* the result of a dexscreener link: its chain mapped
MappedLinkInfo(dexscreener_match) ==
    IF dexscreener_match.ok
    THEN GmgnInfo("dexscreener", chain_mapping(Group(dexscreener_match, 1)),
                  dexscreener_match.groups[2])
    ELSE NoneInfo

\* strategy 0 of the source (the spec's strategy 1): a lone Solana mint
MintInfo(solana_mint_match, marker) ==
    IF solana_mint_match.ok /\ marker
    THEN GmgnInfo("gmgn", "sol", solana_mint_match.groups[1])
    ELSE NoneInfo

DirectMint(atoms) == MintInfo(SolanaMintSearch(atoms), SolanaMarkerSearch(atoms))

\* strategy 1 of the source: a gmgn.ai link, chain and address verbatim
GmgnLink(atoms) == LinkInfo(Search(GmgnPattern, atoms), "gmgn")

\* the chain of a labelled field: the label's own chain field, else the
\* chain of a dexscreener link, else ethereum; lower-cased
ChainOf(chain_match, dex_match) ==
    IF chain_match.ok THEN Lower(Group(chain_match, 1))
    ELSE IF dex_match.ok THEN Lower(Group(dex_match, 1))
    ELSE "ethereum"

ResolveChain(atoms, pattern) ==
    ChainOf(Search(pattern, atoms), Search(DexChainPattern, atoms))

\* strategy 2 of the source: the CA: field
CaField(atoms) ==
    FieldInfo(Search(CaPattern, atoms),
              chain_mapping(ResolveChain(atoms, ChainPattern)))

\* strategy 3 of the source: the contract: field
ContractField(atoms) ==
    FieldInfo(Search(ContractPattern, atoms),
              chain_mapping(ResolveChain(atoms, NetworkPattern)))

\* strategy 4 of the source: a dexscreener link
DexscreenerLink(atoms) ==
    MappedLinkInfo(Search(DexscreenerPattern, atoms))

\* the first of the results that is not None
FirstInfo(results) ==
    LET found == {i \in DOMAIN results : results[i] # NoneInfo} IN
    IF found = {} THEN NoneInfo
    ELSE results[CHOOSE i \in found : \A k \in found : i <= k]

\* a variant that tries the contract: field before the CA: field
extract_contract_info_ContractFirst(atoms) ==
    FirstInfo(<<DirectMint(atoms), GmgnLink(atoms), ContractField(atoms),
                CaField(atoms), DexscreenerLink(atoms)>>)

\* the strategies in the order of the source; the first that matches returns
extract_contract_info(atoms) ==
    FirstInfo(<<DirectMint(atoms), GmgnLink(atoms), CaField(atoms),
                ContractField(atoms), DexscreenerLink(atoms)>>)

\* ------------------------------------------------------------------------
\* DebugMonitor.extract_contract_info
\* ------------------------------------------------------------------------
\* r'gmgn\.ai/(\w+)/token/([a-fA-F0-9x]+)'
HexGmgnPattern == <<Lit("gmgn.ai/"), WordG, Lit("/token/"), HexG>>
\* r'CA:\s*([a-fA-F0-9x]+)'
HexCaPattern == <<Lit("CA:"), WsOpt, HexG>>
\* r'dexscreener\.com/(\w+)/([a-fA-F0-9x]+)'
HexDexscreenerPattern == <<Lit("dexscreener.com/"), WordG, Lit("/"), HexG>>

\* the gmgn.ai link, else the CA: field on its resolved chain, else the
\* dexscreener link
Debug_info(gmgn_match, ca_match, dexscreener_match, chain) ==
    IF gmgn_match.ok THEN LinkInfo(gmgn_match, "gmgn")
    ELSE IF ca_match.ok THEN FieldInfo(ca_match, Debug_chain_mapping(chain))
    ELSE IF dexscreener_match.ok
    THEN GmgnInfo("contract", Debug_chain_mapping(Group(dexscreener_match, 1)),
                  dexscreener_match.groups[2])
    ELSE NoneInfo

Debug_extract_contract_info(atoms) ==
    Debug_info(Search(HexGmgnPattern, atoms), Search(HexCaPattern, atoms),
               Search(HexDexscreenerPattern, atoms),
               ResolveChain(atoms, ChainPattern))

\* ------------------------------------------------------------------------
\* The monitored bots and their ticker patterns
\* ------------------------------------------------------------------------
\* monitored_bots, in the order of the dictionary
BotOrder == <<"mexcTracker", "kormushka_mexc", "pumply_futures_dex",
              "MexcDexSpreadTracker">>
BotNames == {BotOrder[i] : i \in 1..Len(BotOrder)}

\* r'(\w+)\s+\|\s+[\d.]+%\s+\|\s+(Long|Short)'
MexcTrackerPattern ==
    <<WordG, Ws, Lit("|"), Ws, Pct, Ws, Lit("|"), Ws, Alt({"Long", "Short"})>>
\* r'(\w+)\s+\+[\d.]+%\s+in\s+\d+\s+secs!'
KormushkaPattern ==
    <<WordG, Ws, PlusPct, Ws, Lit("in"), Ws, Digits, Ws, Lit("secs!")>>
\* r'<U+1F53B>\s+(SHORT|LONG)\s+\$(\w+)\s+\+[\d.]+%\s+on\s+MEXC'
PumplyPattern ==
    <<Lit("<U+1F53B>"), Ws, Alt({"SHORT", "LONG"}), Ws, Lit("$"), WordG, Ws,
      PlusPct, Ws, Lit("on"), Ws, Lit("MEXC")>>
\* the pattern of MexcDexSpreadTracker is configuration: three groups, the
\* second the direction and the third the ticker
SpreadTrackerPattern ==
    <<WordG, Ws, Alt({"SHORT", "LONG"}), Ws, Lit("$"), WordG>>

\* config['monitored_bots'][bot_name]['pattern']
PatternOf(bot_name) ==
    CASE bot_name = "mexcTracker" -> MexcTrackerPattern
      [] bot_name = "kormushka_mexc" -> KormushkaPattern
      [] bot_name = "pumply_futures_dex" -> PumplyPattern
      [] bot_name = "MexcDexSpreadTracker" -> SpreadTrackerPattern

\* Python's None where a ticker_data dictionary is expected
NoneData == [found |-> FALSE, ticker |-> "", direction |-> "None",
             dex_info |-> NoneInfo, bot_name |-> ""]

TickerData(ticker, direction, dex_info, bot_name) ==
    [found |-> TRUE, ticker |-> ticker, direction |-> direction,
     dex_info |-> dex_info, bot_name |-> bot_name]

\* the last of the results that is not None
LastData(results) ==
    LET found == {i \in DOMAIN results : results[i].found} IN
    IF found = {} THEN NoneData
    ELSE results[CHOOSE i \in found : \A k \in found : i >= k]

\* the first of the results that is not None
FirstData(results) ==
    LET found == {i \in DOMAIN results : results[i].found} IN
    IF found = {} THEN NoneData
    ELSE results[CHOOSE i \in found : \A k \in found : i <= k]

\* ------------------------------------------------------------------------
\* BotMonitor.extract_ticker
\* ------------------------------------------------------------------------
\* monitored_bots[bot_name]['dex_pattern']
BotMonitor_dex_pattern(bot_name) ==
    IF bot_name = "kormushka_mexc" THEN HexGmgnPattern ELSE HexDexscreenerPattern

\* the dex_info of extract_ticker: a gmgn.ai URL under either dex_pattern
BotMonitor_dex_info(dex_match, bot_name) ==
    LinkInfo(dex_match,
             IF bot_name = "kormushka_mexc" THEN "gmgn" ELSE "dexscreener")

\* the groups of the ticker match: the direction branch of mexcTracker
\* compares bot_name with 'mexc_tracker'
BotMonitor_ticker_data(ticker_match, dex_info, bot_name) ==
    IF ~ticker_match.ok THEN NoneData
    ELSE TickerData(IF bot_name = "pumply_futures_dex" THEN Group(ticker_match, 2)
                    ELSE Group(ticker_match, 1),
                    IF bot_name = "pumply_futures_dex" THEN Group(ticker_match, 1)
                    ELSE IF bot_name = "mexc_tracker" THEN Group(ticker_match, 2)
                    ELSE "None",
                    dex_info, bot_name)

BotMonitor_extract_ticker(atoms, bot_name) ==
    \* MexcDexSpreadTracker is no key of monitored_bots: KeyError, caught
    IF bot_name \notin {"mexcTracker", "kormushka_mexc", "pumply_futures_dex"}
    THEN NoneData
    ELSE BotMonitor_ticker_data(
             Search(PatternOf(bot_name), atoms),
             BotMonitor_dex_info(Search(BotMonitor_dex_pattern(bot_name), atoms),
                                 bot_name),
             bot_name)

\* BotMonitor.open_gmgn: the URL handed to webbrowser.open (<<>>: none)
BotMonitor_open_gmgn(dex_info) ==
    IF dex_info = NoneInfo THEN <<>> ELSE dex_info.url

\* ------------------------------------------------------------------------
\* TelegramBotParser
\* ------------------------------------------------------------------------
\* the dex_info of a dexscreener link: chain, contract and URL verbatim
DexscreenerInfo(dexscreener_match) ==
    IF dexscreener_match.ok
    THEN DexInfo("dexscreener", Group(dexscreener_match, 1),
                 dexscreener_match.groups[2],
                 DexscreenerUrl(Group(dexscreener_match, 1),
                                dexscreener_match.groups[2]))
    ELSE NoneInfo

\* the result of a parser: the ticker is group t of the match, the direction
\* group d (0: the bot has no direction)
Parsed(ticker_match, t, d, dex_info, source) ==
    IF ~ticker_match.ok THEN NoneData
    ELSE TickerData(Group(ticker_match, t),
                    IF d = 0 THEN "None" ELSE Group(ticker_match, d),
                    dex_info, source)

parse_mexc_tracker_message(atoms) ==
    Parsed(Search(MexcTrackerPattern, atoms), 1, 2,
           DexscreenerInfo(Search(HexDexscreenerPattern, atoms)), "mexc_tracker")

parse_kormushka_message(atoms) ==
    Parsed(Search(KormushkaPattern, atoms), 1, 0,
           LinkInfo(Search(HexGmgnPattern, atoms), "gmgn"), "kormushka")

parse_pumply_message(atoms) ==
    Parsed(Search(PumplyPattern, atoms), 2, 1,
           DexscreenerInfo(Search(HexDexscreenerPattern, atoms)), "pumply")

\* TelegramBotParser.process_message: the first parser that returns a result
Parser_process_message(atoms) ==
    FirstData(<<parse_mexc_tracker_message(atoms), parse_kormushka_message(atoms),
                parse_pumply_message(atoms)>>)

\* the URL handed to webbrowser.open (<<>>: none)
open_gmgn_in_browser(dex_info) ==
    IF dex_info = NoneInfo THEN <<>>
    ELSE IF dex_info.type = "gmgn" THEN dex_info.url
    ELSE IF dex_info.type = "dexscreener"
         THEN GmgnUrl(dex_info.chain, dex_info.contract)
    ELSE <<>>

\* ------------------------------------------------------------------------
\* DebugMonitor.extract_ticker_data
\* ------------------------------------------------------------------------
\* the result of one round of the loop over monitored_bots
Debug_ticker_data(ticker_match, dex_info, bot_name) ==
    IF ~ticker_match.ok THEN NoneData
    ELSE TickerData(IF bot_name = "pumply_futures_dex" THEN Group(ticker_match, 2)
                    ELSE Group(ticker_match, 1),
                    IF bot_name = "pumply_futures_dex" THEN Group(ticker_match, 1)
                    ELSE IF bot_name = "mexcTracker" THEN Group(ticker_match, 2)
                    ELSE "None",
                    dex_info, bot_name)

\* the loop over monitored_bots: the first enabled bot whose pattern matches
\* decides (enabled: the bots whose 'enabled' is true)
Debug_extract_ticker_data(atoms, enabled) ==
    FirstData([i \in 1..Len(BotOrder) |->
                 IF BotOrder[i] \notin enabled THEN NoneData
                 ELSE Debug_ticker_data(Search(PatternOf(BotOrder[i]), atoms),
                                        Debug_extract_contract_info(atoms),
                                        BotOrder[i])])

\* ------------------------------------------------------------------------
\* AdvancedBotMonitor: configuration and state
\* ------------------------------------------------------------------------
VARIABLES
    config,              \* config.json as loaded by __init__, never re-read
    processed_messages,  \* self.processed_messages
    stats,               \* self.stats
    running,             \* FALSE after stop() and sys.exit(1)
    last,                \* what the last process_message call did
    ever_recorded,       \* history: every fingerprint ever added to the cache
    loc,                 \* input and results of the extraction functions
    inserted,            \* history: the cached fingerprints in the order they were added
    tasks,               \* the handle_new_message coroutines of the event loop
    gui                  \* TelegramParserGUI: its widgets and its worker threads

vars == <<config, processed_messages, stats, running, last, ever_recorded, loc,
          inserted, tasks, gui>>

Config(enabled, tickers, copy, open, notifications) ==
    [blacklist_enabled |-> enabled, blacklisted_tickers |-> tickers,
     auto_copy_clipboard |-> copy, auto_open_gmgn |-> open,
     notifications |-> notifications]

\* the configurations the monitor is started with: an upper-case blacklist,
\* a blacklist with a lower-case entry, a disabled blacklist with all the
\* automatic actions off, and a configuration without 'notifications'
Configs ==
    {Config(TRUE, {"RICE", "DOGE"}, TRUE, TRUE, "enabled"),
     Config(TRUE, {"doge"}, TRUE, TRUE, "enabled"),
     Config(FALSE, {"RICE"}, FALSE, FALSE, "disabled"),
     Config(TRUE, {"RICE"}, TRUE, TRUE, "missing")}

\* the configuration the extraction functions are applied under
PlainConfig == Config(FALSE, {}, TRUE, TRUE, "enabled")

\* TelegramParserGUI after setup_ui: the process button is enabled, both
\* text fields are empty and no worker thread has been started
NoGui == [process_button |-> "normal", status_var |-> "ready",
          message_text |-> <<>>, result_text |-> "", threads |-> <<>>]

InitStats == [messages_processed |-> 0, tickers_found |-> 0,
              blacklisted_tickers |-> 0, errors |-> 0, last_activity |-> 0]

NoCall == [bot_name |-> "", message_id |-> 0, atoms |-> <<>>, hash |-> <<>>,
           outcome |-> "none", calls |-> <<>>, data |-> NoneData,
           effects |-> <<>>]

\* an extraction function that was not applied yet
NotLocated == [done |-> FALSE, info |-> NoneInfo]
NotExtracted == [done |-> FALSE, data |-> NoneData, url |-> <<>>]

NoLoc == [msg |-> <<>>, bot_name |-> "",
          adv_info |-> NotLocated, dbg_info |-> NotLocated,
          adv |-> NotExtracted, dbg |-> NotExtracted,
          bm |-> NotExtracted, tp |-> NotExtracted,
          chain |-> "", adv_chain |-> <<>>, dbg_chain |-> <<>>,
          enabled |-> BotNames, clipboard |-> TRUE,
          entities |-> <<>>, buttons |-> <<>>]

\* ------------------------------------------------------------------------
\* AdvancedBotMonitor: is_ticker_blacklisted, extract_ticker_data
\* ------------------------------------------------------------------------
is_ticker_blacklisted(ticker, cfg) ==
    IF ~cfg.blacklist_enabled THEN FALSE
    ELSE Upper(ticker) \in cfg.blacklisted_tickers

\* the group of the ticker match that holds the ticker
TickerGroup(bot_name) ==
    CASE bot_name = "pumply_futures_dex" -> 2
      [] bot_name = "mexcTracker" -> 1
      [] bot_name = "MexcDexSpreadTracker" -> 3
      [] OTHER -> 1

\* the group of the ticker match that holds the direction (0: none)
DirectionGroup(bot_name) ==
    CASE bot_name = "pumply_futures_dex" -> 1
      [] bot_name = "mexcTracker" -> 2
      [] bot_name = "MexcDexSpreadTracker" -> 2
      [] OTHER -> 0

\* the blacklist decides about a matched ticker; calls: the calls made on
\* a ticker that is blacklisted and on one that is not
Screened(ticker, direction, dex_info, bot_name, cfg, rejected, accepted) ==
    IF is_ticker_blacklisted(ticker, cfg)
    THEN [data |-> NoneData, hits |-> 1, calls |-> rejected]
    ELSE [data |-> TickerData(ticker, direction, dex_info, bot_name),
          hits |-> 0, calls |-> accepted]

\* what extract_ticker_data does with the match of the bot's pattern
Matched(ticker_match, dex_info, bot_name, cfg, rejected, accepted) ==
    IF ~ticker_match.ok
    THEN [data |-> NoneData, hits |-> 0, calls |-> <<"re.search">>]
    ELSE Screened(Group(ticker_match, TickerGroup(bot_name)),
                  IF DirectionGroup(bot_name) = 0 THEN "None"
                  ELSE Group(ticker_match, DirectionGroup(bot_name)),
                  dex_info, bot_name, cfg, rejected, accepted)

\* a variant that locates the contract before it asks the blacklist
extract_ticker_data_LocateFirst(atoms, bot_name, cfg) ==
    Matched(Search(PatternOf(bot_name), atoms), extract_contract_info(atoms),
            bot_name, cfg,
            <<"re.search", "extract_contract_info", "is_ticker_blacklisted">>,
            <<"re.search", "extract_contract_info", "is_ticker_blacklisted">>)

\* the result, the increment of stats['blacklisted_tickers'] and the calls
\* made, in order
extract_ticker_data(atoms, bot_name, cfg) ==
    Matched(Search(PatternOf(bot_name), atoms), extract_contract_info(atoms),
            bot_name, cfg,
            <<"re.search", "is_ticker_blacklisted">>,
            <<"re.search", "is_ticker_blacklisted", "extract_contract_info">>)

\* ------------------------------------------------------------------------
\* AdvancedBotMonitor.process_message
\* ------------------------------------------------------------------------
Min(a, b) == IF a < b THEN a ELSE b

\* message[:100]
Prefix(atoms) == SubSeq(atoms, 1, Min(PrefixLen, Len(atoms)))

\* hash(f"{bot_name}_{message_id}_{message[:100]}"); the hash of two
\* different strings is taken to differ
message_hash(atoms, bot_name, message_id) ==
    <<bot_name, "_", message_id, "_">> \o Prefix(atoms)

\* the length of list[-self.max_cache_size//2:], for a longer list
KeepCount == 0 - ((0 - max_cache_size) \div 2)

\* a cache that is never cut
CacheAfterAdd_NoCut(cache) == {cache}

\* set(list(self.processed_messages)[-self.max_cache_size//2:]) when the
\* cache has grown beyond max_cache_size: a set iterates in the order of
\* its hash table, so the slice may hold any KeepCount of its elements
CacheAfterAdd(cache) ==
    IF Cardinality(cache) > max_cache_size
    THEN {kept \in SUBSET cache : Cardinality(kept) = KeepCount}
    ELSE {cache}

\* f"MEXC:{ticker}USDT.p"
convert_ticker_to_mexc(ticker) == <<"MEXC:", ticker, "USDT.p">>

\* the pyperclip.copy calls of copy_to_clipboard
copy_to_clipboard(text, cfg) ==
    IF cfg.auto_copy_clipboard THEN <<[op |-> "copy", arg |-> text]>> ELSE <<>>

\* the webbrowser.open calls of open_gmgn
open_gmgn(dex_info, cfg) ==
    IF ~cfg.auto_open_gmgn THEN <<>>
    ELSE IF dex_info = NoneInfo THEN <<>>
    ELSE <<[op |-> "open", arg |-> dex_info.url]>>

\* the notifications of send_notification (config['notifications'] exists)
send_notification(ticker, cfg) ==
    IF cfg.notifications = "enabled"
    THEN <<[op |-> "notify", arg |-> <<ticker>>]>>
    ELSE <<>>

Call(bot_name, message_id, atoms, outcome, calls, data, effects) ==
    [bot_name |-> bot_name, message_id |-> message_id, atoms |-> atoms,
     hash |-> message_hash(atoms, bot_name, message_id),
     outcome |-> outcome, calls |-> calls, data |-> data, effects |-> effects]

\* a variant that finds no fingerprint in the cache
IsDuplicate_Never(hash, cache) == FALSE

\* the duplicate test of process_message
IsDuplicate(hash, cache) == hash \in cache

\* stats in which the message itself is not counted
Counted_Skip(r) ==
    [stats EXCEPT !.last_activity = stats.messages_processed + 1,
                  !.blacklisted_tickers = @ + r.hits]

\* stats after the message was counted
Counted(r) ==
    [stats EXCEPT !.messages_processed = @ + 1,
                  !.last_activity = stats.messages_processed + 1,
                  !.blacklisted_tickers = @ + r.hits]

\* the clipboard copy and the browser open of a ticker that was found
Actions(data) ==
    copy_to_clipboard(convert_ticker_to_mexc(data.ticker), config)
    \o open_gmgn(data.dex_info, config)

\* the except branch of process_message: stop() and sys.exit(1) once the
\* errors have reached max_errors
KeepsRunning(errors) == ~(errors >= max_errors)

\* process_message on a message that is no duplicate; r is what
\* extract_ticker_data returned
Admit(atoms, bot_name, message_id, r) ==
    /\ processed_messages' \in
          CacheAfterAdd(processed_messages
                        \cup {message_hash(atoms, bot_name, message_id)})
    /\ ever_recorded' =
          ever_recorded \cup {message_hash(atoms, bot_name, message_id)}
    /\ inserted' = SelectSeq(Append(inserted,
                                    message_hash(atoms, bot_name, message_id)),
                             LAMBDA h : h \in processed_messages')
    /\ IF ~r.data.found
       THEN /\ stats' = Counted(r)
            /\ running' = running
            /\ last' = Call(bot_name, message_id, atoms,
                            IF r.hits = 1 THEN "blacklisted" ELSE "no_match",
                            <<"duplicate_check">> \o r.calls, NoneData, <<>>)
       ELSE IF config.notifications = "missing"
       THEN \* KeyError in send_notification, caught by process_message
            /\ stats' = [Counted(r) EXCEPT !.tickers_found = @ + 1,
                                           !.errors = @ + 1]
            /\ running' = KeepsRunning(stats.errors + 1)
            /\ last' = Call(bot_name, message_id, atoms, "error",
                            <<"duplicate_check">> \o r.calls, r.data,
                            Actions(r.data))
       ELSE /\ stats' = [Counted(r) EXCEPT !.tickers_found = @ + 1]
            /\ running' = running
            /\ last' = Call(bot_name, message_id, atoms, "signal",
                            <<"duplicate_check">> \o r.calls, r.data,
                            Actions(r.data)
                            \o send_notification(r.data.ticker, config))

\* a variant that counts the duplicates too
Proceed_CountDuplicates(seen, message, bot_name, message_id) ==
    IF seen
    THEN /\ last' = Call(bot_name, message_id, message, "duplicate",
                         <<"duplicate_check">>, NoneData, <<>>)
         /\ stats' = [stats EXCEPT !.messages_processed = @ + 1]
         /\ UNCHANGED <<processed_messages, running, ever_recorded, inserted>>
    ELSE Admit(message, bot_name, message_id,
               extract_ticker_data(message, bot_name, config))

\* process_message after the duplicate test (seen: what the test found)
Proceed(seen, message, bot_name, message_id) ==
    IF seen
    THEN /\ last' = Call(bot_name, message_id, message, "duplicate",
                         <<"duplicate_check">>, NoneData, <<>>)
         /\ UNCHANGED <<processed_messages, stats, running, ever_recorded, inserted>>
    ELSE Admit(message, bot_name, message_id,
               extract_ticker_data(message, bot_name, config))

\* message: the text of the message, as atoms
process_message(message, bot_name, message_id) ==
    Proceed(IsDuplicate(message_hash(message, bot_name, message_id),
                        processed_messages),
            message, bot_name, message_id)

\* ------------------------------------------------------------------------
\* The messages delivered to the monitor
\* ------------------------------------------------------------------------
NoG == <<>>
MexcLine(ticker, direction) == Frag("mexcTracker", "", "", <<ticker, direction>>)
KormushkaLine(ticker) == Frag("kormushka_mexc", "", "", <<ticker>>)
PumplyLine(direction, ticker) == Frag("pumply_futures_dex", "", "", <<direction, ticker>>)
SpreadLine(word, direction, ticker) ==
    Frag("MexcDexSpreadTracker", "", "", <<word, direction, ticker>>)

\* "DEXE | 8.17% | Long ... CA: 0xde4E... Chain: ethereum"
MsgDexe == <<MexcLine("DEXE", "Long"), Frag("dexs", "ethereum", HexDexe, NoG),
             Frag("CA", "", HexDexe, NoG), Frag("Chain", "ethereum", "", NoG)>>
\* the same first 100 characters, another end
MsgDexeOther == <<MexcLine("DEXE", "Long"), Frag("dexs", "ethereum", HexDexe, NoG),
                  Frag("CA", "", HexDexe, NoG), Frag("Chain", "arbitrum", "", NoG)>>
\* "<U+1F53B> SHORT $RICE +6.32% on MEXC ... network: BEP20 (...) contract: 0xb576..."
MsgRice == <<PumplyLine("SHORT", "RICE"), Frag("network", "BEP20", "", NoG),
             Frag("dexs", "bsc", HexPair, NoG),
             Frag("contract", "contract:", HexRice, NoG)>>
MsgDogeLower == <<MexcLine("doge", "Short")>>
MsgNoTicker == <<Frag("word", "gm", "", NoG)>>

Delivery(bot_name, message_id, message) ==
    [bot_name |-> bot_name, message_id |-> message_id, message |-> message]

\* the (bot, message id, text) triples handle_new_message passes to
\* process_message; the ids are 1..MaxMsgId
Deliveries ==
    {d \in {Delivery("mexcTracker", 1, MsgDexe),
            Delivery("mexcTracker", 1, MsgDexeOther),
            Delivery("mexcTracker", 2, MsgDexe),
            Delivery("pumply_futures_dex", 1, MsgRice),
            Delivery("mexcTracker", 1, MsgDogeLower),
            Delivery("kormushka_mexc", 2, MsgNoTicker)} :
        d.message_id \in 1..MaxMsgId}

ProcessMessage ==
    /\ running
    /\ stats.messages_processed < MaxCount
    /\ \E d \in Deliveries :
          process_message(Flatten(d.message), d.bot_name, d.message_id)
    /\ UNCHANGED <<gui, config, loc, tasks>>

Init ==
    /\ config \in Configs
    /\ processed_messages = {}
    /\ stats = InitStats
    /\ running = TRUE
    /\ last = NoCall
    /\ ever_recorded = {}
    /\ loc = NoLoc
    /\ inserted = <<>>
    /\ tasks = <<>>
    /\ gui = NoGui

Next == ProcessMessage

Spec == Init /\ [][Next]_vars

\* ------------------------------------------------------------------------
\* The contract locators applied to every message of up to MaxFrags fragments
\* ------------------------------------------------------------------------
LocatorFrags ==
    {Frag("gmgn", "eth", HexFtt, NoG),
     Frag("gmgn", "sol", MintH, NoG),
     Frag("gmgn", "tron", Mint7, NoG),
     Frag("CA", "", HexDexe, NoG),
     Frag("Chain", "ethereum", "", NoG),
     Frag("Chain", "BEP20", "", NoG),
     Frag("contract", "contract:", HexRice, NoG),
     Frag("network", "BEP20", "", NoG),
     Frag("dexs", "bsc", HexPair, NoG),
     Frag("mint", "", MintH, NoG),
     Frag("word", "#SOLANA", "", NoG)}

\* the sequences over S of length lo..hi
SeqsOf(S, lo, hi) == UNION {[1..k -> S] : k \in lo..hi}

LocatorMessages == SeqsOf(LocatorFrags, 1, MaxFrags)

Idle ==
    /\ config = PlainConfig
    /\ processed_messages = {}
    /\ stats = InitStats
    /\ running = TRUE
    /\ last = NoCall
    /\ ever_recorded = {}
    /\ inserted = <<>>
    /\ tasks = <<>>
    /\ gui = NoGui

InitLocator ==
    /\ Idle
    /\ \E m \in LocatorMessages : loc = [NoLoc EXCEPT !.msg = m]

Located(info) == [done |-> TRUE, info |-> info]

AdvancedLocate ==
    /\ ~loc.adv_info.done
    /\ loc' = [loc EXCEPT
                 !.adv_info = Located(extract_contract_info(Flatten(loc.msg)))]
    /\ UNCHANGED <<gui, config, processed_messages, stats, running, last, ever_recorded,
                   inserted, tasks>>

DebugLocate ==
    /\ ~loc.dbg_info.done
    /\ loc' = [loc EXCEPT
                 !.dbg_info = Located(Debug_extract_contract_info(Flatten(loc.msg)))]
    /\ UNCHANGED <<gui, config, processed_messages, stats, running, last, ever_recorded,
                   inserted, tasks>>

NextLocator == AdvancedLocate \/ DebugLocate

SpecLocator == InitLocator /\ [][NextLocator]_vars

\* ------------------------------------------------------------------------
\* The ticker extractors of the four implementations applied to a bot's
\* message: its ticker line and up to MaxBody further fragments
\* ------------------------------------------------------------------------
TickerLines ==
    {MexcLine("DEXE", "Long"), MexcLine("doge", "Short"), KormushkaLine("FTT"),
     PumplyLine("SHORT", "RICE"), SpreadLine("MEXC", "LONG", "DOGE")}

BodyFrags ==
    {Frag("CA", "", HexDexe, NoG),
     Frag("Chain", "ethereum", "", NoG),
     Frag("dexs", "ethereum", HexDexe, NoG),
     Frag("gmgn", "eth", HexFtt, NoG),
     Frag("contract", "contract:", HexRice, NoG),
     Frag("network", "BEP20", "", NoG),
     Frag("dexs", "bsc", HexPair, NoG)}

BotMessages == {<<l>> \o b : l \in TickerLines, b \in SeqsOf(BodyFrags, 0, MaxBody)}

InitExtract ==
    /\ Idle
    /\ \E m \in BotMessages : loc = [NoLoc EXCEPT !.msg = m, !.bot_name = m[1].t]

Extracted(data, url) == [done |-> TRUE, data |-> data, url |-> url]

\* the URL of the webbrowser.open call among the effects (<<>>: none)
OpenedUrl(effects) == IF effects = <<>> THEN <<>> ELSE effects[1].arg

\* the result of an extractor and the URL it handed to the browser
Handled(data, url) == Extracted(data, IF data.found THEN url ELSE <<>>)

\* AdvancedBotMonitor: extract_ticker_data, then open_gmgn
Advanced_handle(data, cfg) ==
    Handled(data, OpenedUrl(open_gmgn(data.dex_info, cfg)))

AdvancedExtract ==
    /\ ~loc.adv.done
    /\ loc' = [loc EXCEPT !.adv =
                 Advanced_handle(extract_ticker_data(Flatten(loc.msg), loc.bot_name,
                                                     config).data,
                                 config)]
    /\ UNCHANGED <<gui, config, processed_messages, stats, running, last, ever_recorded,
                   inserted, tasks>>

\* DebugMonitor: extract_ticker_data, then open_gmgn
DebugExtract ==
    /\ ~loc.dbg.done
    /\ loc' = [loc EXCEPT !.dbg =
                 Advanced_handle(Debug_extract_ticker_data(Flatten(loc.msg),
                                                           loc.enabled),
                                 config)]
    /\ UNCHANGED <<gui, config, processed_messages, stats, running, last, ever_recorded,
                   inserted, tasks>>

\* BotMonitor: extract_ticker, then open_gmgn
BotMonitor_handle(data) == Handled(data, BotMonitor_open_gmgn(data.dex_info))

BotMonitorExtract ==
    /\ ~loc.bm.done
    /\ loc' = [loc EXCEPT !.bm =
                 BotMonitor_handle(BotMonitor_extract_ticker(Flatten(loc.msg),
                                                             loc.bot_name))]
    /\ UNCHANGED <<gui, config, processed_messages, stats, running, last, ever_recorded,
                   inserted, tasks>>

\* TelegramBotParser.copy_to_clipboard: False when pyperclip.copy raises
Parser_copy_to_clipboard(works) == works

\* TelegramBotParser.handle_message: process_message, copy_to_clipboard
\* (return False when it fails), then open_gmgn_in_browser
handle_message(data, copied) ==
    Handled(data, IF copied THEN open_gmgn_in_browser(data.dex_info) ELSE <<>>)

ParserHandle ==
    /\ ~loc.tp.done
    /\ loc' = [loc EXCEPT !.tp =
                 handle_message(Parser_process_message(Flatten(loc.msg)),
                                Parser_copy_to_clipboard(loc.clipboard))]
    /\ UNCHANGED <<gui, config, processed_messages, stats, running, last, ever_recorded,
                   inserted, tasks>>

NextExtract == AdvancedExtract \/ DebugExtract \/ BotMonitorExtract \/ ParserHandle

SpecExtract == InitExtract /\ [][NextExtract]_vars

\* ------------------------------------------------------------------------
\* Properties of AdvancedBotMonitor.process_message (specification Spec)
\* ------------------------------------------------------------------------
Processed == {"signal", "error"}
Admitted == {"no_match", "blacklisted", "signal", "error"}

\* C1: the same (bot_name, message_id, text prefix) triple delivered twice
\* in a row: the first delivery is admitted, the second is a duplicate,
\* whatever the cache held before, a full cache included
C1_TwiceInARow ==
    [][(last.outcome \in Admitted /\ last'.hash = last.hash)
          => last'.outcome = "duplicate"]_vars

\* C2: once the fingerprint of a triple was recorded, no later delivery of
\* that triple is processed again, cache evictions included
C2_NeverAgain ==
    [][last'.hash \in ever_recorded => last'.outcome \notin Processed]_vars

\* C2 (amended): while the fingerprint of a triple is in processed_messages,
\* a delivery of that triple is a duplicate: no extraction, no clipboard copy,
\* no browser open, no notification, and neither the counters nor the cache
\* change
C2_WhileCached ==
    [][last'.hash \in processed_messages
          => /\ last'.outcome = "duplicate"
             /\ last'.calls = <<"duplicate_check">>
             /\ last'.data = NoneData
             /\ last'.effects = <<>>
             /\ stats' = stats
             /\ processed_messages' = processed_messages]_vars

\* a duplicate was rejected after the cache had been cut
C2_Witness ==
    /\ last.outcome = "duplicate"
    /\ last.hash \in processed_messages
    /\ Cardinality(ever_recorded) > Cardinality(processed_messages)

Stages == <<"duplicate_check", "re.search", "is_ticker_blacklisted",
            "extract_contract_info">>

\* the ticker that the pattern of a bot captured ("" when it did not match)
TickerIn(ticker_match, bot_name) ==
    IF ~ticker_match.ok THEN ""
    ELSE Group(ticker_match, CASE bot_name = "pumply_futures_dex" -> 2
                               [] bot_name = "MexcDexSpreadTracker" -> 3
                               [] OTHER -> 1)

\* the ticker that the pattern of the call's bot captures in the call's text
MatchedTicker(c) == TickerIn(Search(PatternOf(c.bot_name), c.atoms), c.bot_name)

\* the last stage a message reaches
StageOf(duplicate, ticker, cfg) ==
    IF duplicate THEN 1
    ELSE IF ticker = "" THEN 2
    ELSE IF cfg.blacklist_enabled /\ Upper(ticker) \in cfg.blacklisted_tickers THEN 3
    ELSE 4

\* the call c ran the stages up to reached, and its outcome is that of the
\* stage it stopped at
StagesRun(c, reached) ==
    /\ c.calls = SubSeq(Stages, 1, reached)
    /\ c.outcome \in Processed <=> reached = 4
    /\ c.outcome = "blacklisted" <=> reached = 3
    /\ c.outcome = "no_match" <=> reached = 2
    /\ c.outcome = "duplicate" <=> reached = 1

\* C3: the stages run in the order duplicate check, grammar match, blacklist
\* check, Contract Locator, and the call stops at the first stage that
\* rejects; extract_contract_info runs, and a Signal is produced, only for a
\* message that is no duplicate, matched and is not blacklisted
C3_StageOrder ==
    [][StagesRun(last', StageOf(last'.hash \in processed_messages,
                                MatchedTicker(last'), config))]_vars

\* a message went through all four stages and became a Signal, under a
\* configuration whose blacklist is enabled
C3_Witness ==
    /\ last.outcome = "signal"
    /\ last.calls = Stages
    /\ config.blacklist_enabled
    /\ stats.blacklisted_tickers > 0

\* C4: with the blacklist enabled, a ticker that equals a blacklist entry
\* ignoring case is rejected, whatever the letter case of the ticker and of
\* the entry
C4_CaseInsensitive ==
    (config.blacklist_enabled /\ last.outcome \in Processed)
        => \A b \in config.blacklisted_tickers :
              Lower(b) # Lower(last.data.ticker)

\* C5: a non-duplicate message whose extracted ticker the enabled blacklist
\* contains yields no Signal: blacklisted_tickers grows by one, tickers_found
\* stays, and nothing is copied, opened or notified
C5_BlacklistedRejected ==
    [][LET c == last' IN
       (/\ c.hash \notin processed_messages
        /\ config.blacklist_enabled
        /\ MatchedTicker(c) \in config.blacklisted_tickers)
          => /\ c.outcome = "blacklisted"
             /\ c.effects = <<>>
             /\ stats'.blacklisted_tickers = stats.blacklisted_tickers + 1
             /\ stats'.tickers_found = stats.tickers_found]_vars

\* ------------------------------------------------------------------------
\* Properties of the contract locators (specification SpecLocator)
\* ------------------------------------------------------------------------
FragsOf(msg, t) == {i \in DOMAIN msg : msg[i].t = t}
HasFrag(msg, t) == FragsOf(msg, t) # {}
FirstFrag(msg, t) == msg[CHOOSE i \in FragsOf(msg, t) : \A k \in FragsOf(msg, t) : i <= k]

\* C6: a message with a gmgn.ai link and a CA: field of another address: both
\* locators return the chain and the address of the gmgn.ai link
C6_GmgnOverCa ==
    \A i \in FragsOf(loc.msg, "gmgn"), k \in FragsOf(loc.msg, "CA") :
        (Cardinality(FragsOf(loc.msg, "gmgn")) = 1 /\ loc.msg[k].a # loc.msg[i].a)
          => \A r \in {loc.adv_info, loc.dbg_info} :
                r.done => /\ r.info.chain = loc.msg[i].c
                          /\ r.info.contract = <<loc.msg[i].a>>

\* the triggers of the strategies, read off the fragments of the message
HasToken(msg) == \E i \in DOMAIN msg : msg[i].a \in MintAddresses
HasMarker(msg) == \E i \in DOMAIN msg : Lower(msg[i].c) \in {"sol", "solana", "#solana"}
FirstToken(msg) ==
    msg[CHOOSE i \in DOMAIN msg :
          /\ msg[i].a \in MintAddresses
          /\ \A k \in DOMAIN msg : msg[k].a \in MintAddresses => i <= k].a

\* what the lowest-numbered strategy whose trigger is present produces
LowestStrategy(msg) ==
    IF HasToken(msg) /\ HasMarker(msg)
    THEN DexInfo("gmgn", "sol", <<FirstToken(msg)>>,
                 GmgnUrl("sol", <<FirstToken(msg)>>))
    ELSE IF HasFrag(msg, "gmgn") THEN GmgnLink(Flatten(msg))
    ELSE IF HasFrag(msg, "CA") THEN CaField(Flatten(msg))
    ELSE IF HasFrag(msg, "contract") THEN ContractField(Flatten(msg))
    ELSE IF HasFrag(msg, "dexs") THEN DexscreenerLink(Flatten(msg))
    ELSE NoneInfo

AnyTrigger(msg) ==
    \/ HasToken(msg) /\ HasMarker(msg)
    \/ \E t \in {"gmgn", "CA", "contract", "dexs"} : HasFrag(msg, t)

\* C7: AdvancedBotMonitor.extract_contract_info returns what the
\* lowest-numbered strategy whose trigger is present produces, in the order
\* direct mint (token and marker, chain sol), gmgn.ai link, CA: field,
\* contract: field, dexscreener link, none; a token alone or a marker alone
\* does not make the direct mint strategy fire
C7_StrategyOrder ==
    loc.adv_info.done
      => /\ loc.adv_info.info = LowestStrategy(loc.msg)
         /\ loc.adv_info.info # NoneInfo <=> AnyTrigger(loc.msg)
         /\ (HasToken(loc.msg) /\ HasMarker(loc.msg))
               <=> DirectMint(Flatten(loc.msg)) # NoneInfo

\* a message with a CA: field and a contract: field and no earlier trigger:
\* the CA: field won
C7_Witness ==
    /\ loc.adv_info.done
    /\ HasFrag(loc.msg, "CA") /\ HasFrag(loc.msg, "contract")
    /\ ~HasFrag(loc.msg, "gmgn")
    /\ ~(HasToken(loc.msg) /\ HasMarker(loc.msg))
    /\ loc.adv_info.info.contract = <<FirstFrag(loc.msg, "CA").a>>
    /\ loc.adv_info.info # ContractField(Flatten(loc.msg))

\* ------------------------------------------------------------------------
\* Properties of the ticker extractors (specification SpecExtract)
\* ------------------------------------------------------------------------
Implementations == {"adv", "dbg", "bm", "tp"}

\* C8: whenever an implementation found a contract, the URL it hands to the
\* browser is https://gmgn.ai/<canonical chain>/token/<contract>, the chain
\* normalized to its short code
C8_CanonicalUrl ==
    \A n \in Implementations :
        (loc[n].done /\ loc[n].data.found /\ loc[n].data.dex_info # NoneInfo)
          => loc[n].url = GmgnUrl(chain_mapping(loc[n].data.dex_info.chain),
                                  loc[n].data.dex_info.contract)

\* C9: a mexcTracker message 'TICKER | pct% | Long|Short' with 'CA: <address>'
\* and 'Chain: ethereum': every implementation returns the ticker, the
\* direction, and the contract with chain eth, the CA address and the URL
\* https://gmgn.ai/eth/token/<address>
C9_ScenarioA ==
    (/\ loc.bot_name = "mexcTracker"
     /\ HasFrag(loc.msg, "CA")
     /\ \E i \in FragsOf(loc.msg, "Chain") : loc.msg[i].c = "ethereum")
      => \A n \in Implementations :
            loc[n].done
              => /\ loc[n].data.found
                 /\ loc[n].data.ticker = loc.msg[1].g[1]
                 /\ loc[n].data.direction = loc.msg[1].g[2]
                 /\ loc[n].data.dex_info.chain = "eth"
                 /\ loc[n].data.dex_info.contract = <<FirstFrag(loc.msg, "CA").a>>
                 /\ loc[n].data.dex_info.url =
                        GmgnUrl("eth", <<FirstFrag(loc.msg, "CA").a>>)

\* the chain of a contract: field: the network: field, else the chain of a
\* dexscreener link, else ethereum
NetworkOf(msg) ==
    IF HasFrag(msg, "network") THEN FirstFrag(msg, "network").c
    ELSE IF HasFrag(msg, "dexs") THEN FirstFrag(msg, "dexs").c
    ELSE "ethereum"

\* C10: a message with a contract: field and no CA: field (and no gmgn.ai
\* link): AdvancedBotMonitor and TelegramBotParser.parse_pumply_message return
\* the address of the contract: field, on the normalized chain of the
\* network: field, else of a dexscreener link, else ethereum
C10_ContractField ==
    (/\ HasFrag(loc.msg, "contract")
     /\ ~HasFrag(loc.msg, "CA")
     /\ ~HasFrag(loc.msg, "gmgn"))
      => \A n \in {"adv", "tp"} :
            (loc[n].done /\ (n = "tp" => loc.bot_name = "pumply_futures_dex"))
              => /\ loc[n].data.found
                 /\ loc[n].data.dex_info.contract = <<FirstFrag(loc.msg, "contract").a>>
                 /\ loc[n].data.dex_info.chain = chain_mapping(NetworkOf(loc.msg))

\* ------------------------------------------------------------------------
\* Properties of the cache of fingerprints (specification Spec)
\* ------------------------------------------------------------------------
\* the elements of a sequence
Range(s) == {s[i] : i \in DOMAIN s}

\* the last n elements of a sequence
LastN(s, n) == SubSeq(s, Len(s) - n + 1, Len(s))

\* the call recorded a fingerprint, and the cache outgrew max_cache_size
CacheCut ==
    /\ last'.outcome \in Admitted
    /\ last'.hash \notin processed_messages
    /\ Cardinality(processed_messages \cup {last'.hash}) > max_cache_size

\* C16: when adding a fingerprint makes the cache exceed max_cache_size, the
\* cache is cut to the fingerprints inserted last: the fingerprint just
\* inserted stays, and every evicted one is older than every retained one
C16_NewestHalfKept ==
    [][CacheCut => /\ last'.hash \in processed_messages'
                   /\ processed_messages' =
                         Range(LastN(Append(inserted, last'.hash), KeepCount))]_vars

\* C17: the fingerprint of a newly seen message is recorded whether or not
\* the message yields a Signal, and the immediate redelivery of a message
\* that matched no grammar or was blacklisted is a duplicate that counts
\* neither in messages_processed nor in blacklisted_tickers
C17_RejectedRecorded ==
    [][/\ last'.outcome \in Admitted => last'.hash \in ever_recorded'
       /\ (last.outcome \in {"no_match", "blacklisted"} /\ last'.hash = last.hash)
            => /\ last'.outcome = "duplicate"
               /\ stats'.messages_processed = stats.messages_processed
               /\ stats'.blacklisted_tickers = stats.blacklisted_tickers]_vars

\* ------------------------------------------------------------------------
\* Properties of the failure paths (specification Spec)
\* ------------------------------------------------------------------------
\* C13: no call propagates an exception: the extraction of the last
\* process_message call returned a result or None, and the call itself
\* returned normally (it did not leave through sys.exit)
C13_NothingPropagates ==
    last.outcome # "none"
      => /\ last.data = NoneData \/ last.data.found
         /\ running

\* ------------------------------------------------------------------------
\* Properties of the gmgn.ai link and CA: strategies (specification
\* SpecLocator)
\* ------------------------------------------------------------------------
\* C18: when AdvancedBotMonitor takes the contract from a gmgn.ai link, the
\* chain and the contract it returns are the chain segment and the address
\* segment of that link, verbatim
C18_GmgnVerbatim ==
    (/\ loc.adv_info.done
     /\ HasFrag(loc.msg, "gmgn")
     /\ ~(HasToken(loc.msg) /\ HasMarker(loc.msg)))
      => /\ loc.adv_info.info.type = "gmgn"
         /\ loc.adv_info.info.chain = FirstFrag(loc.msg, "gmgn").c
         /\ loc.adv_info.info.contract = <<FirstFrag(loc.msg, "gmgn").a>>

\* the chain of a CA: field: the Chain: field, else the chain of a
\* dexscreener link, else ethereum
ChainFieldOf(msg) ==
    IF HasFrag(msg, "Chain") THEN FirstFrag(msg, "Chain").c
    ELSE IF HasFrag(msg, "dexs") THEN FirstFrag(msg, "dexs").c
    ELSE "ethereum"

\* C19: when a locator takes the contract from a CA: field, the chain it
\* returns is the normalized form of the Chain: field, else of the chain of
\* a dexscreener link, else of ethereum
C19_CaChain ==
    \A n \in {"adv_info", "dbg_info"} :
        (/\ loc[n].done
         /\ HasFrag(loc.msg, "CA")
         /\ loc[n].info.type = "contract")
          => /\ loc[n].info.contract = <<FirstFrag(loc.msg, "CA").a>>
             /\ loc[n].info.chain = chain_mapping(ChainFieldOf(loc.msg))

\* ------------------------------------------------------------------------
\* The chain normalization of AdvancedBotMonitor and of DebugMonitor applied
\* to a chain name, and again to its own result: adv_chain and dbg_chain
\* hold the results so far
\* ------------------------------------------------------------------------
ChainNames == ChainWords

InitNormalize ==
    /\ Idle
    /\ \E x \in ChainNames : loc = [NoLoc EXCEPT !.chain = x]

\* the name the next application is given: the input, then the last result
NextInput(x, results) ==
    IF results = <<>> THEN x ELSE results[Len(results)]

AdvancedNormalize ==
    /\ Len(loc.adv_chain) < 2
    /\ loc' = [loc EXCEPT !.adv_chain =
                 Append(@, chain_mapping(NextInput(loc.chain, @)))]
    /\ UNCHANGED <<gui, config, processed_messages, stats, running, last, ever_recorded,
                   inserted, tasks>>

DebugNormalize ==
    /\ Len(loc.dbg_chain) < 2
    /\ loc' = [loc EXCEPT !.dbg_chain =
                 Append(@, Debug_chain_mapping(NextInput(loc.chain, @)))]
    /\ UNCHANGED <<gui, config, processed_messages, stats, running, last, ever_recorded,
                   inserted, tasks>>

NextNormalize == AdvancedNormalize \/ DebugNormalize

SpecNormalize == InitNormalize /\ [][NextNormalize]_vars

\* ------------------------------------------------------------------------
\* C11
\* ------------------------------------------------------------------------
\* the canonical codes: the values of the mapping table
CanonicalCodes == {"eth", "arb", "bsc", "polygon", "base", "sol", "avax"}

\* C11: the chain normalization is idempotent in both implementations:
\* normalizing the result of a normalization returns that result, and a
\* canonical code maps to itself
C11_Idempotent ==
    \A n \in {"adv_chain", "dbg_chain"} :
        /\ Len(loc[n]) = 2 => loc[n][2] = loc[n][1]
        /\ (Len(loc[n]) >= 1 /\ loc.chain \in CanonicalCodes)
             => loc[n][1] = loc.chain

\* a name of the table that is not its own code has been normalized twice
\* by both implementations
C11_Witness ==
    /\ loc.chain = "Ethereum"
    /\ loc.adv_chain = <<"eth", "eth">>
    /\ loc.dbg_chain = <<"eth", "eth">>

\* ------------------------------------------------------------------------
\* C20
\* ------------------------------------------------------------------------
\* the table of the normalization: name -> short code
ShortCode(c) ==
    CASE c = "ethereum" -> "eth"
      [] c = "arbitrum" -> "arb"
      [] c = "bsc" -> "bsc"
      [] c = "polygon" -> "polygon"
      [] c = "base" -> "base"
      [] c = "solana" -> "sol"
      [] c = "sol" -> "sol"
      [] c = "avalanche" -> "avax"
      [] c = "bep20" -> "bsc"
      [] OTHER -> c

\* C20: in both implementations the normalization of a name is the short
\* code of the case-folded name when the table has it, and the case-folded
\* name otherwise; it is never empty
C20_TotalTable ==
    \A n \in {"adv_chain", "dbg_chain"} :
        Len(loc[n]) >= 1 => /\ loc[n][1] = ShortCode(Lower(loc.chain))
                            /\ loc[n][1] # ""

\* ------------------------------------------------------------------------
\* The ticker extractors applied to messages in which the ticker lines of
\* several bots and other text come in any order, under monitored_bots with
\* every bot enabled and with mexcTracker disabled
\* ------------------------------------------------------------------------
GrammarLines ==
    {MexcLine("DEXE", "Long"), KormushkaLine("FTT"), PumplyLine("SHORT", "RICE"),
     SpreadLine("MEXC", "LONG", "DOGE")}

OtherFrags == {Frag("word", "gm", "", NoG), Frag("CA", "", HexDexe, NoG)}

GrammarMessages == SeqsOf(GrammarLines \cup OtherFrags, 1, MaxFrags)

EnabledSets == {BotNames, BotNames \ {"mexcTracker"}}

\* the bot that sent the message: the bot of its first ticker line
SenderOf(msg) ==
    LET lines == {i \in DOMAIN msg : msg[i].t \in BotNames} IN
    IF lines = {} THEN "mexcTracker"
    ELSE msg[CHOOSE i \in lines : \A k \in lines : i <= k].t

InitGrammar ==
    /\ Idle
    /\ \E m \in GrammarMessages, e \in EnabledSets :
          loc = [NoLoc EXCEPT !.msg = m, !.bot_name = SenderOf(m), !.enabled = e]

SpecGrammar == InitGrammar /\ [][NextExtract]_vars

\* ------------------------------------------------------------------------
\* C12
\* ------------------------------------------------------------------------
\* the parsers of TelegramBotParser.process_message in their order, by the
\* bot whose lines they parse, and the 'source' each one returns
ParserOrder == <<"mexcTracker", "kormushka_mexc", "pumply_futures_dex">>
ParserSource == <<"mexc_tracker", "kormushka", "pumply">>

\* the positions of order whose grammar is enabled and has a line in msg
Matching(msg, order, enabledBots) ==
    {i \in DOMAIN order : order[i] \in enabledBots /\ HasFrag(msg, order[i])}

\* the result is from the first matching grammar of order (names: the name
\* each grammar puts in its result), and None only when none matches
FromFirst(data, matching, names) ==
    IF matching = {} THEN data = NoneData
    ELSE /\ data.found
         /\ data.bot_name = names[CHOOSE i \in matching : \A k \in matching : i <= k]

\* C12: DebugMonitor.extract_ticker_data returns the result of the first
\* enabled bot, in the order of monitored_bots, whose pattern matches, and
\* TelegramBotParser.process_message the result of the first of
\* mexc_tracker, kormushka, pumply whose pattern matches; the result is
\* None only when no grammar matches
C12_FirstGrammar ==
    /\ loc.dbg.done
         => FromFirst(loc.dbg.data, Matching(loc.msg, BotOrder, loc.enabled), BotOrder)
    /\ loc.tp.done
         => FromFirst(loc.tp.data, Matching(loc.msg, ParserOrder, BotNames),
                      ParserSource)

\* a message with a pumply line before a kormushka line: both extractors
\* return the kormushka result, the earlier grammar in the configured order
C12_Witness ==
    /\ loc.msg = <<PumplyLine("SHORT", "RICE"), KormushkaLine("FTT")>>
    /\ loc.dbg.done /\ loc.dbg.data.bot_name = "kormushka_mexc"
    /\ loc.tp.done /\ loc.tp.data.bot_name = "kormushka"

\* ------------------------------------------------------------------------
\* C15
\* ------------------------------------------------------------------------
\* the ticker and the direction of a result
Signal(data) == <<data.found, data.ticker, data.direction>>

\* the message that is the sender's ticker line alone
LineAlone(msg, bot_name) == <<FirstFrag(msg, bot_name)>>

\* C15: when the message holds the ticker line of its sender, the ticker
\* and the direction that AdvancedBotMonitor.extract_ticker_data and
\* BotMonitor.extract_ticker return are those they return for the ticker
\* line alone, whatever other text comes before or after it
C15_SurroundingText ==
    HasFrag(loc.msg, loc.bot_name)
      => /\ loc.adv.done
              => /\ loc.adv.data.found
                 /\ Signal(loc.adv.data)
                      = Signal(extract_ticker_data(
                                   Flatten(LineAlone(loc.msg, loc.bot_name)),
                                   loc.bot_name, config).data)
         /\ loc.bm.done
              => Signal(loc.bm.data)
                   = Signal(BotMonitor_extract_ticker(
                                Flatten(LineAlone(loc.msg, loc.bot_name)),
                                loc.bot_name))

\* a mexcTracker line between other text: both extractors return its ticker
C15_Witness ==
    /\ loc.msg = <<Frag("word", "gm", "", NoG), MexcLine("DEXE", "Long"),
                   Frag("CA", "", HexDexe, NoG)>>
    /\ loc.adv.done /\ loc.adv.data.ticker = "DEXE" /\ loc.adv.data.direction = "Long"
    /\ loc.bm.done /\ loc.bm.data.ticker = "DEXE"

\* ------------------------------------------------------------------------
\* The event loop: every new message starts a handle_new_message coroutine.
\* A coroutine runs until it awaits something that suspends it; the only
\* such await of handle_new_message and process_message is await
\* self.stop() in the except branch, so the duplicate test and all that
\* follows it run without another coroutine in between
\* ------------------------------------------------------------------------
MaxTasks == 4

\* pc: "pending" (created, not yet run), "tested" (after the duplicate test
\* of line 403), "stopping" (suspended in await self.stop()), "exited"
\* (sys.exit(1) was raised), "done"
Task(d) == [d |-> d, pc |-> "pending", seen |-> FALSE, outcome |-> "none"]

TaskHash(t) == message_hash(Flatten(t.d.message), t.d.bot_name, t.d.message_id)

ConcurrentDeliveries ==
    {Delivery("mexcTracker", 1, MsgDexe),
     Delivery("mexcTracker", 2, MsgDexe),
     Delivery("pumply_futures_dex", 1, MsgRice)}

ConcurrentConfigs ==
    {Config(FALSE, {"RICE"}, FALSE, FALSE, "disabled"),
     Config(TRUE, {"RICE"}, TRUE, TRUE, "missing")}

InitConcurrent ==
    /\ config \in ConcurrentConfigs
    /\ processed_messages = {}
    /\ stats = InitStats
    /\ running = TRUE
    /\ last = NoCall
    /\ ever_recorded = {}
    /\ loc = NoLoc
    /\ inserted = <<>>
    /\ tasks = <<>>
    /\ gui = NoGui

\* SystemExit has ended the program
Exited == \E i \in DOMAIN tasks : tasks[i].pc = "exited"

\* no coroutine is between its duplicate test and the end of its run
LoopFree == \A i \in DOMAIN tasks : tasks[i].pc # "tested"

\* a new message arrives: the client creates the coroutine of its handler
Dispatch ==
    /\ running /\ ~Exited
    /\ Len(tasks) < MaxTasks
    /\ \E d \in ConcurrentDeliveries : tasks' = Append(tasks, Task(d))
    /\ UNCHANGED <<gui, config, processed_messages, stats, running, last, ever_recorded,
                   loc, inserted>>

\* the loop runs a coroutine: handle_new_message up to the duplicate test
\* of process_message
Test(i) ==
    /\ ~Exited /\ LoopFree
    /\ tasks[i].pc = "pending"
    /\ tasks' = [tasks EXCEPT ![i].pc = "tested",
                              ![i].seen = IsDuplicate(TaskHash(tasks[i]),
                                                      processed_messages)]
    /\ UNCHANGED <<gui, config, processed_messages, stats, running, last, ever_recorded,
                   loc, inserted>>

\* the coroutine goes on without suspending: the insertion and the rest of
\* process_message, up to its return or to await self.stop()
Finish(i) ==
    /\ ~Exited
    /\ tasks[i].pc = "tested"
    /\ Proceed(tasks[i].seen, Flatten(tasks[i].d.message), tasks[i].d.bot_name,
               tasks[i].d.message_id)
    /\ tasks' = [tasks EXCEPT ![i].outcome = last'.outcome,
                              ![i].pc = IF last'.outcome = "error" /\ ~running'
                                        THEN "stopping" ELSE "done"]
    /\ UNCHANGED <<gui, config, loc>>

\* the client has disconnected: the coroutine resumes and raises
\* SystemExit
Exit(i) ==
    /\ ~Exited /\ LoopFree
    /\ tasks[i].pc = "stopping"
    /\ tasks' = [tasks EXCEPT ![i].pc = "exited"]
    /\ UNCHANGED <<gui, config, processed_messages, stats, running, last, ever_recorded,
                   loc, inserted>>

RunTask == \E i \in DOMAIN tasks : Test(i) \/ Finish(i) \/ Exit(i)

NextConcurrent == Dispatch \/ RunTask

SpecConcurrent == InitConcurrent /\ [][NextConcurrent]_vars

\* ------------------------------------------------------------------------
\* C14
\* ------------------------------------------------------------------------
\* the coroutine has made its duplicate test and found the fingerprint
\* not in the cache
Unseen(t) == t.pc # "pending" /\ ~t.seen

\* the duplicate test and the insertion are one step for the other
\* coroutines: at most one coroutine is between the two, and the cache is
\* still as its test found it
C14_AtomicCheckInsert ==
    \A i \in DOMAIN tasks :
        tasks[i].pc = "tested"
          => /\ \A j \in DOMAIN tasks : tasks[j].pc = "tested" => j = i
             /\ tasks[i].seen = IsDuplicate(TaskHash(tasks[i]), processed_messages)

\* C14: under every interleaving of the handle_new_message coroutines, the
\* duplicate test and the insertion of the fingerprint are one atomic step,
\* and no two deliveries with the same fingerprint are both treated as
\* unseen
C14_NeverBothUnseen ==
    /\ C14_AtomicCheckInsert
    /\ \A i, j \in DOMAIN tasks :
          (i # j /\ TaskHash(tasks[i]) = TaskHash(tasks[j]))
            => ~(Unseen(tasks[i]) /\ Unseen(tasks[j]))

\* ------------------------------------------------------------------------
\* Properties of the cache and of the counters (specification Spec)
\* ------------------------------------------------------------------------
\* C26: after every process_message call the cache holds at most
\* max_cache_size fingerprints
C26_CacheBounded == Cardinality(processed_messages) <= max_cache_size

\* a call has made the cache outgrow max_cache_size, and the cache was cut
C26_Witness ==
    /\ last.outcome \in Admitted
    /\ last.hash \in ever_recorded
    /\ Cardinality(ever_recorded) > max_cache_size
    /\ Cardinality(processed_messages) = KeepCount

\* C27: a delivery that is judged a duplicate leaves the counters,
\* last_activity and the cache as they were, and performs no clipboard
\* copy, no browser open and no notification
C27_DuplicateFrame ==
    [][last'.outcome = "duplicate"
          => /\ stats'.messages_processed = stats.messages_processed
             /\ stats'.tickers_found = stats.tickers_found
             /\ stats'.blacklisted_tickers = stats.blacklisted_tickers
             /\ stats'.errors = stats.errors
             /\ stats'.last_activity = stats.last_activity
             /\ processed_messages' = processed_messages
             /\ last'.effects = <<>>]_vars

\* a delivery was judged a duplicate after a ticker had been found
C27_Witness ==
    /\ last.outcome = "duplicate"
    /\ stats.tickers_found >= 1

\* the counters of the monitor
Counters == {"messages_processed", "tickers_found", "blacklisted_tickers", "errors"}

\* C28: tickers_found + blacklisted_tickers <= messages_processed in every
\* state; a call that is no duplicate adds one to messages_processed and at
\* most one to tickers_found or to blacklisted_tickers, never to both; no
\* counter decreases
C28_CounterOrder ==
    /\ [](stats.tickers_found + stats.blacklisted_tickers <= stats.messages_processed)
    /\ [][/\ \A c \in Counters : stats'[c] >= stats[c]
          /\ last'.outcome \in Admitted
               => /\ stats'.messages_processed = stats.messages_processed + 1
                  /\ (stats'.tickers_found - stats.tickers_found)
                     + (stats'.blacklisted_tickers - stats.blacklisted_tickers) <= 1
          ]_vars

\* tickers were found and a ticker was blocked
C28_Witness ==
    /\ stats.tickers_found >= 1
    /\ stats.blacklisted_tickers >= 1
    /\ stats.messages_processed > stats.tickers_found + stats.blacklisted_tickers

\* ------------------------------------------------------------------------
\* Properties of the failed calls (specification Spec)
\* ------------------------------------------------------------------------
\* C22: a process_message call that fails with an internal error adds one
\* to errors and has no other effect: the cache, messages_processed and
\* tickers_found are as before the call, and no clipboard copy, browser
\* open or notification was performed
C22_ErrorNoEffect ==
    [][last'.outcome = "error"
          => /\ stats'.errors = stats.errors + 1
             /\ processed_messages' = processed_messages
             /\ stats'.messages_processed = stats.messages_processed
             /\ stats'.tickers_found = stats.tickers_found
             /\ last'.effects = <<>>]_vars

\* C24: the counters are not used for control decisions: whether the
\* monitor keeps running after a call is the same whatever the value of
\* errors was before the call
C24_CountersNoControl ==
    [][last'.outcome = "error"
          => \A e \in 0..max_errors : running' = KeepsRunning(e + 1)]_vars

\* ------------------------------------------------------------------------
\* C21
\* ------------------------------------------------------------------------
\* the ticker and the direction written in the ticker line of a bot
LineTicker(f) ==
    CASE f.t = "pumply_futures_dex" -> f.g[2]
      [] f.t = "MexcDexSpreadTracker" -> f.g[3]
      [] OTHER -> f.g[1]

LineDirection(f) ==
    CASE f.t = "pumply_futures_dex" -> f.g[1]
      [] f.t = "mexcTracker" -> f.g[2]
      [] f.t = "MexcDexSpreadTracker" -> f.g[2]
      [] OTHER -> "None"

\* the result holds the ticker and the direction of the line of its bot
FromGroups(data, msg) ==
    data.found
      => /\ data.ticker = LineTicker(FirstFrag(msg, data.bot_name))
         /\ data.direction = LineDirection(FirstFrag(msg, data.bot_name))

\* C21: in AdvancedBotMonitor, DebugMonitor and BotMonitor the ticker and
\* the direction of a result are the capture groups of its source: pumply
\* direction 1 and ticker 2, mexcTracker ticker 1 and direction 2,
\* MexcDexSpreadTracker direction 2 and ticker 3, any other source ticker 1
\* and no direction
C21_GroupsPerSource ==
    \A n \in {"adv", "dbg", "bm"} :
        loc[n].done => FromGroups(loc[n].data, loc.msg)

\* ------------------------------------------------------------------------
\* The handlers applied to a bot's message when pyperclip.copy works and
\* when it raises
\* ------------------------------------------------------------------------
ClipboardMessages == {<<l>> \o b : l \in TickerLines, b \in SeqsOf(BodyFrags, 0, 1)}

InitClipboard ==
    /\ Idle
    /\ \E m \in ClipboardMessages, works \in BOOLEAN :
          loc = [NoLoc EXCEPT !.msg = m, !.bot_name = m[1].t, !.clipboard = works]

SpecClipboard == InitClipboard /\ [][NextExtract]_vars

\* ------------------------------------------------------------------------
\* C23
\* ------------------------------------------------------------------------
\* C23: when the clipboard copy fails for a message that produced a ticker
\* and a contract, AdvancedBotMonitor and TelegramBotParser still open the
\* explorer URL in the browser
C23_CopyFailureNonFatal ==
    \A n \in {"adv", "tp"} :
        (/\ loc[n].done
         /\ ~loc.clipboard
         /\ loc[n].data.found
         /\ loc[n].data.dex_info # NoneInfo)
          => loc[n].url # <<>>

\* ------------------------------------------------------------------------
\* AdvancedBotMonitor.handle_new_message on an event with a text, hidden
\* link entities and inline buttons: the URLs of the entities and of the
\* buttons are appended to the text, then process_message is called
\* ------------------------------------------------------------------------
\* " \n".join(extra_urls)
JoinUrls(urls) ==
    LET text[i \in 0..Len(urls)] ==
          IF i = 0 THEN <<>>
          ELSE (IF i = 1 THEN <<>> ELSE text[i - 1] \o <<" ", "\n">>) \o Render(urls[i])
    IN text[Len(urls)]

\* message_text as handle_new_message passes it to process_message
AppendUrls(atoms, extra_urls) ==
    IF extra_urls = <<>> THEN atoms
    ELSE atoms \o <<"\n">> \o JoinUrls(extra_urls)

EventTexts ==
    {<<MexcLine("DEXE", "Long")>>,
     <<KormushkaLine("FTT")>>,
     <<PumplyLine("SHORT", "RICE"), Frag("network", "BEP20", "", NoG)>>,
     <<MexcLine("DEXE", "Long"), Frag("CA", "", HexDexe, NoG)>>,
     <<Frag("word", "gm", "", NoG)>>}

\* the URLs of hidden link entities and of buttons
EventUrls ==
    {Frag("gmgn", "eth", HexFtt, NoG),
     Frag("gmgn", "tron", Mint7, NoG),
     Frag("dexsbare", "bsc", HexPair, NoG)}

InitEvent ==
    /\ Idle
    /\ \E m \in EventTexts, e \in SeqsOf(EventUrls, 0, 1), b \in SeqsOf(EventUrls, 0, 1) :
          loc = [NoLoc EXCEPT !.msg = m, !.bot_name = SenderOf(m),
                              !.entities = e, !.buttons = b]

HandleNewMessage ==
    /\ last.outcome = "none"
    /\ process_message(AppendUrls(Flatten(loc.msg), loc.entities \o loc.buttons),
                       loc.bot_name, 1)
    /\ UNCHANGED <<gui, config, loc, tasks>>

\* the same event delivered again
Redelivery ==
    /\ last.outcome \in Admitted
    /\ process_message(AppendUrls(Flatten(loc.msg), loc.entities \o loc.buttons),
                       loc.bot_name, 1)
    /\ UNCHANGED <<gui, config, loc, tasks>>

NextEvent == HandleNewMessage \/ Redelivery

SpecEvent == InitEvent /\ [][NextEvent]_vars

\* ------------------------------------------------------------------------
\* C25
\* ------------------------------------------------------------------------
\* C25: the URLs of the hidden link entities and of the buttons are part of
\* the text that process_message works on, and a message whose only
\* gmgn.ai link is in an entity or a button yields the contract of that
\* link
C25_HiddenUrlsSeen ==
    last.outcome \in Admitted
      => /\ last.atoms = AppendUrls(Flatten(loc.msg), loc.entities \o loc.buttons)
         /\ (last.data.found /\ HasFrag(loc.entities \o loc.buttons, "gmgn"))
              => /\ last.data.dex_info.type = "gmgn"
                 /\ last.data.dex_info.contract
                      = <<FirstFrag(loc.entities \o loc.buttons, "gmgn").a>>


\* ------------------------------------------------------------------------
\* C29
\* ------------------------------------------------------------------------
\* the coroutine has passed the duplicate test with an unseen fingerprint:
\* its message is admitted for processing
AdmittedTask(t) == t.pc = "tested" /\ ~t.seen

\* C29: whenever a message is admitted for processing, the error count is
\* below max_errors, whatever handlers are interleaved while the monitor
\* is stopping
C29_NoProcessingAtLimit ==
    \A i \in DOMAIN tasks :
        AdmittedTask(tasks[i]) => stats.errors < max_errors


\* ------------------------------------------------------------------------
\* TelegramParserGUI: the process button starts a worker thread that runs
\* process(); the main thread goes on handling the user's clicks while the
\* workers run
\* ------------------------------------------------------------------------
MaxClicks == 3

\* TelegramBotParser.handle_message: its return value
handle_message_success(data, copied) == data.found /\ copied

\* what the user leaves in the message field: nothing, text without a
\* ticker line, the test data of load_test_data
TestData == MsgDexe

GuiTexts == {<<>>, <<Frag("word", "gm", "", NoG)>>, TestData}

\* pc of a worker: "started" (thread.start() was called), "disabled" (it has
\* disabled the button), "handling" (inside parser.handle_message),
\* "finally" (result written, finally block not yet run), "done"
Thread == [pc |-> "started", message |-> <<>>]

InitGui ==
    /\ Idle
    /\ \E works \in BOOLEAN : loc = [NoLoc EXCEPT !.clipboard = works]

GuiFrame ==
    UNCHANGED <<config, processed_messages, stats, running, last, ever_recorded, loc,
                inserted, tasks>>

\* the user pastes a message into the message field
Paste ==
    /\ \E m \in GuiTexts \ {gui.message_text, <<>>, TestData} :
          gui' = [gui EXCEPT !.message_text = m]
    /\ GuiFrame

\* the button "Очистить"
clear_text ==
    /\ gui' = [gui EXCEPT !.message_text = <<>>, !.result_text = "",
                          !.status_var = "ready"]
    /\ GuiFrame

\* the button "Тестовые данные"
load_test_data ==
    /\ gui.message_text # TestData
    /\ gui' = [gui EXCEPT !.message_text = TestData, !.status_var = "test data"]
    /\ GuiFrame

\* the button "Обработать сообщение", which only an enabled button
\* delivers: process_message creates the worker and starts it
Click ==
    /\ gui.process_button = "normal"
    /\ Len(gui.threads) < MaxClicks
    /\ gui' = [gui EXCEPT !.threads = Append(@, Thread)]
    /\ GuiFrame

\* process(), first two statements: the worker sets the status and
\* disables the button
Disable(i) ==
    /\ gui.threads[i].pc = "started"
    /\ gui' = [gui EXCEPT !.status_var = "processing",
                          !.process_button = "disabled",
                          !.threads[i].pc = "disabled"]
    /\ GuiFrame

\* the worker reads the message field: an empty message is reported and
\* the worker returns through finally, another one is handed to
\* parser.handle_message
ReadMessage(i) ==
    /\ gui.threads[i].pc = "disabled"
    /\ gui' = IF gui.message_text = <<>>
              THEN [gui EXCEPT !.result_text = "empty", !.threads[i].pc = "finally"]
              ELSE [gui EXCEPT !.threads[i].pc = "handling",
                               !.threads[i].message = gui.message_text]
    /\ GuiFrame

\* parser.handle_message returns and the worker writes the result
HandleMessage(i) ==
    /\ gui.threads[i].pc = "handling"
    /\ gui' = [gui EXCEPT
                 !.result_text =
                     IF handle_message_success(
                            Parser_process_message(Flatten(gui.threads[i].message)),
                            Parser_copy_to_clipboard(loc.clipboard))
                     THEN "success" ELSE "failure",
                 !.threads[i].pc = "finally"]
    /\ GuiFrame

\* a call of the try block raises: the except branch reports the error
Raise(i) ==
    /\ gui.threads[i].pc \in {"disabled", "handling"}
    /\ gui' = [gui EXCEPT !.result_text = "error", !.threads[i].pc = "finally"]
    /\ GuiFrame

\* finally: the worker enables the button and resets the status
Finally(i) ==
    /\ gui.threads[i].pc = "finally"
    /\ gui' = [gui EXCEPT !.process_button = "normal", !.status_var = "ready",
                          !.threads[i].pc = "done"]
    /\ GuiFrame

RunThread ==
    \E i \in DOMAIN gui.threads :
        Disable(i) \/ ReadMessage(i) \/ HandleMessage(i) \/ Raise(i) \/ Finally(i)

NextGui == Paste \/ clear_text \/ load_test_data \/ Click \/ RunThread

SpecGui == InitGui /\ [][NextGui]_vars

\* ------------------------------------------------------------------------
\* C30
\* ------------------------------------------------------------------------
\* the worker has been started and has not yet run its finally block
Processing(t) == t.pc \in {"started", "disabled", "handling", "finally"}

\* C30: at most one worker thread is inside parser.handle_message at any
\* time, and the process button is disabled for the whole time a message
\* is being processed
C30_OneWorker ==
    /\ Cardinality({i \in DOMAIN gui.threads : gui.threads[i].pc = "handling"}) <= 1
    /\ (\E i \in DOMAIN gui.threads : Processing(gui.threads[i]))
          => gui.process_button = "disabled"

\* the button is enabled again whenever no worker is left
C30_ReEnabled ==
    (gui.threads # <<>> /\ \A i \in DOMAIN gui.threads : gui.threads[i].pc = "done")
       => gui.process_button = "normal"

====
